---- MODULE Spec2Model ----
(***************************************************************************)
(* django-registration (email / signup-code fork): the registration        *)
(* workflow EmailCodeBackend.register, the credential resolver             *)
(* EmailModelBackend.authenticate, the registration and authentication     *)
(* forms, and generate_unique_username.                                    *)
(*                                                                         *)
(* Text is a sequence of one-character strings, so that lower(), split(),  *)
(* slicing, slugify() and str() are computed as the code computes them.    *)
(* None is modelled by 0 for object references (primary keys start at 1)   *)
(* and by the empty sequence for absent form fields.                       *)
(***************************************************************************)
EXTENDS Integers, Sequences, FiniteSets, TLC

VARIABLES
    users,       \* User.objects: set of account rows, each with its pk in id
    profiles,    \* RegistrationProfile rows: set of user pks
    codes,       \* RegistrationCode rows: code string -> pk of the consuming user, 0 = unused
    outbox,      \* user pks an activation email has been dispatched for
    signals,     \* user pks user_registered has been sent for
    req,         \* per request: the frame of EmailCodeBackend.register
    form,        \* the authentication form instance being validated
    session,     \* request.session of the form's request
    auth,        \* the last direct EmailModelBackend.authenticate call
    reg,         \* the last registration form validated
    max_length,  \* User._meta.get_field('username').max_length
    gen,         \* the frame of generate_unique_username
    trip         \* one visitor's registration, activation and login with the same email

vars == <<users, profiles, codes, outbox, signals, req,
          form, session, auth, reg, max_length, gen, trip>>

----------------------------------------------------------------------------
(* Bounds of the model *)

MaxCalls == 3        \* register requests per behaviour
MaxAccounts == 2     \* accounts created through the forms per behaviour
MaxLen == 2          \* largest configured username max_length explored
MaxTaken == 3        \* size of the arbitrary part of a store in the username search

(* Program constants *)

UsernameMaxLength == 30

----------------------------------------------------------------------------
(* Text *)

None == 0

Max(a, b) == IF a >= b THEN a ELSE b
Min(a, b) == IF a <= b THEN a ELSE b

Range(s) == {s[k] : k \in 1..Len(s)}

DigitChars == <<"0", "1", "2", "3", "4", "5", "6", "7", "8", "9">>
LowerLetters == {"a", "b", "x"}
UpperLetters == {"A", "B"}

\* str.lower() on one character
LowerChar(ch) ==
    CASE ch = "A" -> "a"
      [] ch = "B" -> "b"
      [] OTHER -> ch

\* str.lower()
Lower(s) == [k \in 1..Len(s) |-> LowerChar(s[k])]

\* the ORM's __iexact comparison
IExact(s, t) == Lower(s) = Lower(t)

\* Python s[0:stop]: a negative stop counts from the end
Slice(s, stop) ==
    LET n == IF stop >= 0 THEN Min(stop, Len(s)) ELSE Max(0, Len(s) + stop)
    IN  SubSeq(s, 1, n)

\* str(n) for n >= 0
RECURSIVE Str(_)
Str(n) == IF n < 10 THEN <<DigitChars[n + 1]>>
          ELSE Str(n \div 10) \o <<DigitChars[(n % 10) + 1]>>

\* position of the first "@" in s, or 0
RECURSIVE FirstAt(_, _)
FirstAt(s, k) ==
    IF k > Len(s) THEN 0
    ELSE IF s[k] = "@" THEN k
    ELSE FirstAt(s, k + 1)

\* txt.split('@')[0]
LocalPart(s) ==
    LET p == FirstAt(s, 1)
    IN  IF p = 0 THEN s ELSE SubSeq(s, 1, p - 1)

IsWordChar(ch) ==
    \/ ch \in LowerLetters
    \/ ch \in UpperLetters
    \/ ch \in Range(DigitChars)
    \/ ch = "_"

IsSepChar(ch) == ch \in {"-", " "}

\* re.sub('[^\w\s-]', '', value)
RECURSIVE KeepSlugChars(_)
KeepSlugChars(s) ==
    IF s = <<>> THEN <<>>
    ELSE IF IsWordChar(Head(s)) \/ IsSepChar(Head(s))
         THEN <<Head(s)>> \o KeepSlugChars(Tail(s))
         ELSE KeepSlugChars(Tail(s))

\* str.strip(): whitespace off both ends
RECURSIVE LStrip(_)
LStrip(s) == IF s # <<>> /\ Head(s) = " " THEN LStrip(Tail(s)) ELSE s

RECURSIVE RStrip(_)
RStrip(s) ==
    IF s # <<>> /\ s[Len(s)] = " " THEN RStrip(SubSeq(s, 1, Len(s) - 1)) ELSE s

Strip(s) == RStrip(LStrip(s))

RECURSIVE SkipSeps(_)
SkipSeps(s) == IF s # <<>> /\ IsSepChar(Head(s)) THEN SkipSeps(Tail(s)) ELSE s

\* re.sub('[-\s]+', '-', value)
RECURSIVE CollapseSeps(_)
CollapseSeps(s) ==
    IF s = <<>> THEN <<>>
    ELSE IF IsSepChar(Head(s))
         THEN <<"-">> \o CollapseSeps(SkipSeps(Tail(s)))
         ELSE <<Head(s)>> \o CollapseSeps(Tail(s))

\* django.template.defaultfilters.slugify on ASCII text
slugify(s) == CollapseSeps(Lower(Strip(KeepSlugChars(s))))

----------------------------------------------------------------------------
(* The account store *)

Account(id, username, email, password, is_active) ==
    [id |-> id, username |-> username, email |-> email,
     password |-> password, is_active |-> is_active]

\* the pk the database gives the next row
NextId(rows) == 1 + Max(0, IF rows = {} THEN 0 ELSE CHOOSE m \in {u.id : u \in rows} : \A u \in rows : u.id <= m)

\* User.objects.filter(username=name)
ByUsername(name) == {u \in users : u.username = name}

\* the usernames User.objects.get(username=...) can find
Usernames == {u.username : u \in users}

\* User.objects.filter(email=email)
ByEmail(email) == {u \in users : u.email = email}

\* user.check_password(raw): the stored hash verifies exactly the password it was made from
check_password(user, raw) == user.password = raw

----------------------------------------------------------------------------
(* generate_unique_username *)

\* the counter left as it is
NextI_stuck(i) == i

\* i += 1
NextI(i) == i + 1

\* pfx = str(i+1) if i else ''
Pfx(i) == IF i # 0 THEN Str(i + 1) ELSE <<>>

\* the suffix appended to the whole slug
Candidate_untruncated(username, i, maxlen) == username \o Pfx(i)

\* ret = username[0:max_length-len(pfx)] + pfx
Candidate(username, i, maxlen) ==
    Slice(username, maxlen - Len(Pfx(i))) \o Pfx(i)

GenIdle == [pc |-> "idle", txt |-> <<>>, username |-> <<>>, i |-> 0, ret |-> <<>>]

\* username = slugify(txt.split('@')[0]); i = 0
GenCall(txt) ==
    /\ gen.pc \in {"idle", "done"}
    /\ gen' = [pc |-> "loop", txt |-> txt, username |-> slugify(LocalPart(txt)),
                i |-> 0, ret |-> <<>>]
    /\ UNCHANGED <<users, profiles, codes, outbox, signals, req,
                   form, session, auth, reg, max_length, trip>>

\* one pass of the while True loop: User.objects.get(username=ret) either finds
\* the row (i += 1) or raises DoesNotExist (return ret)
GenTry ==
    /\ gen.pc = "loop"
    /\ LET ret == Candidate(gen.username, gen.i, max_length)
       IN  IF ret \in Usernames
           THEN gen' = [gen EXCEPT !.ret = ret, !.i = NextI(gen.i)]
           ELSE gen' = [gen EXCEPT !.ret = ret, !.pc = "done"]
    /\ UNCHANGED <<users, profiles, codes, outbox, signals, req,
                   form, session, auth, reg, max_length, trip>>

\* the whole function on a given store: the loop above run to its return
RECURSIVE SearchFrom(_, _, _, _)
SearchFrom(username, i, rows, maxlen) ==
    LET ret == Candidate(username, i, maxlen)
    IN  IF \E u \in rows : u.username = ret
        THEN SearchFrom(username, NextI(i), rows, maxlen)
        ELSE ret

generate_unique_username(txt, rows, maxlen) ==
    SearchFrom(slugify(LocalPart(txt)), 0, rows, maxlen)

----------------------------------------------------------------------------
(* EmailCodeBackend.register: one frame per request *)

Requests == 1..MaxCalls

\* the RegistrationCode rows of the store
Codes == {"c1", "c2"}

\* kwargs.get("signup_code", None): absent or empty, an existing code, an unknown one
CodeArgs == {"", "c1", "c2", "zz"}

\* kwargs['email'] as cleaned by the registration form
RegEmails == {<<"a", "@", "x">>, <<"b", "@", "x">>}

ReqIdle == [pc |-> "idle", arg |-> "", email |-> <<>>, signup_code |-> "",
            new_user |-> None, result |-> "none"]

\* RegistrationCode.objects.get(code=signup_code_arg) raised DoesNotExist: the
\* handler names SignupCode, which the module never binds, so matching the
\* except clause raises NameError in place of falling through to return False
LookupFailed == "NameError"

\* signup_code_arg = kwargs.get("signup_code", None); if signup_code_arg: ... return False
RegStart(r, arg, email) ==
    /\ req[r].pc = "idle"
    /\ req' = [req EXCEPT ![r] =
                 IF arg = ""
                 THEN [ReqIdle EXCEPT !.pc = "done", !.email = email, !.result = "False"]
                 ELSE [ReqIdle EXCEPT !.pc = "lookup", !.arg = arg, !.email = email]]
    /\ UNCHANGED <<users, profiles, codes, outbox, signals,
                   form, session, auth, reg, max_length, gen, trip>>

\* signup_code = RegistrationCode.objects.get(code=signup_code_arg)
RegLookup(r) ==
    /\ req[r].pc = "lookup"
    /\ req' = [req EXCEPT ![r] =
                 IF req[r].arg \in DOMAIN codes
                 THEN [@ EXCEPT !.pc = "create", !.signup_code = req[r].arg]
                 ELSE [@ EXCEPT !.pc = "done", !.result = LookupFailed]]
    /\ UNCHANGED <<users, profiles, codes, outbox, signals,
                   form, session, auth, reg, max_length, gen, trip>>

\* super().register, first part: the inactive account and its activation
\* record are created together
RegCreate(r) ==
    /\ req[r].pc = "create"
    /\ LET id == NextId(users)
           name == generate_unique_username(req[r].email, users, max_length)
       IN  /\ users' = users \cup {Account(id, name, req[r].email, "p", FALSE)}
           /\ profiles' = profiles \cup {id}
           /\ req' = [req EXCEPT ![r].pc = "email", ![r].new_user = id]
    /\ UNCHANGED <<codes, outbox, signals, form, session, auth, reg, max_length, gen, trip>>

\* super().register, second part: the activation email is sent
RegSendEmail(r) ==
    /\ req[r].pc = "email"
    /\ outbox' = outbox \cup {req[r].new_user}
    /\ req' = [req EXCEPT ![r].pc = "signal"]
    /\ UNCHANGED <<users, profiles, codes, signals,
                   form, session, auth, reg, max_length, gen, trip>>

\* super().register, last part: signals.user_registered.send(user=new_user)
RegSendSignal(r) ==
    /\ req[r].pc = "signal"
    /\ signals' = signals \cup {req[r].new_user}
    /\ req' = [req EXCEPT ![r].pc = "use"]
    /\ UNCHANGED <<users, profiles, codes, outbox,
                   form, session, auth, reg, max_length, gen, trip>>

\* RegistrationCode.use(user): claim the code for user if it is unused
use(rows, code, user) ==
    IF rows[code] = None THEN [rows EXCEPT ![code] = user] ELSE rows

\* signup_code.use(new_user); return new_user
RegUse(r) ==
    /\ req[r].pc = "use"
    /\ codes' = use(codes, req[r].signup_code, req[r].new_user)
    /\ req' = [req EXCEPT ![r].pc = "done", ![r].result = "user"]
    /\ UNCHANGED <<users, profiles, outbox, signals,
                   form, session, auth, reg, max_length, gen, trip>>

----------------------------------------------------------------------------
(* Registration forms *)

RegistrationFormKinds ==
    {"RegistrationForm", "RegistrationFormUniqueEmail",
     "EmailRegistrationForm", "EmailRegistrationReenterForm"}

\* the forms that declare a username field
HasUsernameField(kind) == kind \in {"RegistrationForm", "RegistrationFormUniqueEmail"}

DuplicateUsername == "A user with that username already exists."
DuplicateEmail == "This email address is already in use. Please supply a different email address."
PasswordMismatch == "The two password fields didn't match."
EmailMismatch == "The two email fields didn't match."

\* RegistrationForm.clean_username: User.objects.get(username__iexact=...) found a row
clean_username_fails(username) == \E u \in users : IExact(u.username, username)

\* RegistrationFormUniqueEmail.clean_email: User.objects.filter(email__iexact=...)
UniqueEmail_taken(email) == \E u \in users : IExact(u.email, email)

\* EmailRegistrationForm.clean_email and EmailRegistrationReenterForm.clean_email:
\* User.objects.filter(email=self.cleaned_data['email'].lower())
EmailForm_taken(email) == ByEmail(Lower(email)) # {}

\* whether clean_email raises ValidationError
clean_email_fails(kind, email) ==
    CASE kind = "RegistrationFormUniqueEmail" -> UniqueEmail_taken(email)
      [] kind \in {"EmailRegistrationForm", "EmailRegistrationReenterForm"} -> EmailForm_taken(email)
      [] OTHER -> FALSE

\* what clean_email returns into cleaned_data['email']
cleaned_email(kind, email) ==
    IF kind \in {"EmailRegistrationForm", "EmailRegistrationReenterForm"}
    THEN Lower(email)
    ELSE email

\* clean(): the first ValidationError raised, if any
clean_errors(kind, data) ==
    IF data.password1 # data.password2 THEN {PasswordMismatch}
    ELSE IF /\ kind = "EmailRegistrationReenterForm"
            /\ ~clean_email_fails(kind, data.email)
            /\ cleaned_email(kind, data.email) # data.email2
         THEN {EmailMismatch}
    ELSE {}

\* form.errors after full_clean()
FormErrors(kind, data) ==
    (IF HasUsernameField(kind) /\ clean_username_fails(data.username)
     THEN {DuplicateUsername} ELSE {})
    \cup (IF clean_email_fails(kind, data.email) THEN {DuplicateEmail} ELSE {})
    \cup clean_errors(kind, data)

FormUsernames == {<<"a">>, <<"A">>, <<"b">>}
FormEmails == {<<"a", "@", "x">>, <<"A", "@", "x">>, <<"b", "@", "x">>}
Passwords == {"p", "q"}

\* what a client may submit to a registration form
FormData(kind) ==
    [username : IF HasUsernameField(kind) THEN FormUsernames ELSE {<<>>},
     email : FormEmails,
     email2 : IF kind = "EmailRegistrationReenterForm" THEN FormEmails ELSE {<<>>},
     password1 : {"p"},
     password2 : Passwords]

RegIdle == [kind |-> "none", data |-> <<>>, errors |-> {}, user |-> None]
FormIdle == [kind |-> "none", request |-> FALSE, state |-> "none",
             error |-> "", user_cache |-> None]
AuthIdle == [email |-> <<>>, password |-> "", raised |-> "", user |-> None, called |-> FALSE]
SessionIdle == [test_cookie_worked |-> FALSE, expiry |-> "default"]

\* a registration request: the form is validated and, when it is valid, the
\* backend creates the inactive account from cleaned_data
RegisterVia(kind, data) ==
    LET errors == FormErrors(kind, data)
        id == NextId(users)
        email == cleaned_email(kind, data.email)
        name == IF HasUsernameField(kind) THEN data.username
                ELSE generate_unique_username(email, users, max_length)
    IN  /\ errors = {} => Cardinality(users) < MaxAccounts
        /\ users' = IF errors = {}
                    THEN users \cup {Account(id, name, email, data.password1, FALSE)}
                    ELSE users
        /\ profiles' = IF errors = {} THEN profiles \cup {id} ELSE profiles
        /\ reg' = [kind |-> kind, data |-> data, errors |-> errors,
                   user |-> IF errors = {} THEN id ELSE None]
        /\ form' = FormIdle
        /\ auth' = AuthIdle
        /\ session' = SessionIdle
        /\ UNCHANGED <<codes, outbox, signals, req, max_length, gen, trip>>

\* the activation step outside these files: the account becomes active
Activate(id) ==
    /\ id \in profiles
    /\ \E u \in users : u.id = id /\ ~u.is_active
    /\ users' = {IF u.id = id THEN [u EXCEPT !.is_active = TRUE] ELSE u : u \in users}
    /\ profiles' = profiles \ {id}
    /\ reg' = RegIdle
    /\ form' = FormIdle
    /\ auth' = AuthIdle
    /\ session' = SessionIdle
    /\ UNCHANGED <<codes, outbox, signals, req, max_length, gen, trip>>

----------------------------------------------------------------------------
(* Credential resolver *)

Row(id) == CHOOSE u \in users : u.id = id

\* EmailModelBackend.authenticate(email, password): User.objects.get(email=email)
\* raises DoesNotExist (caught: None), returns the one row, or raises
\* MultipleObjectsReturned (not caught); a wrong password falls off the end: None
EmailModelBackend_authenticate(email, password) ==
    LET found == ByEmail(email)
    IN  IF found = {} THEN [raised |-> "", user |-> None]
        ELSE IF Cardinality(found) > 1
             THEN [raised |-> "MultipleObjectsReturned", user |-> None]
        ELSE LET user == CHOOSE u \in found : TRUE
             IN  IF check_password(user, password)
                 THEN [raised |-> "", user |-> user.id]
                 ELSE [raised |-> "", user |-> None]

\* the framework's ModelBackend, reached by authenticate(username=..., password=...)
ModelBackend_authenticate(username, password) ==
    LET found == ByUsername(username)
    IN  IF found = {} THEN [raised |-> "", user |-> None]
        ELSE LET user == CHOOSE u \in found : TRUE
             IN  IF check_password(user, password)
                 THEN [raised |-> "", user |-> user.id]
                 ELSE [raised |-> "", user |-> None]

\* a direct call of the resolver
Authenticate(email, password) ==
    /\ auth' = [email |-> email, password |-> password, called |-> TRUE,
                raised |-> EmailModelBackend_authenticate(email, password).raised,
                user |-> EmailModelBackend_authenticate(email, password).user]
    /\ reg' = RegIdle
    /\ form' = FormIdle
    /\ session' = SessionIdle
    /\ UNCHANGED <<users, profiles, codes, outbox, signals, req, max_length, gen, trip>>

----------------------------------------------------------------------------
(* Authentication forms *)

AuthFormKinds == {"EmailAuthenticationForm", "EmailOrUsernameAuthenticationForm"}

IncorrectCredentials == "Please enter a correct email and password."
InactiveAccount == "This account is inactive."
NoCookies == "Your Web browser doesn't appear to have cookies enabled."
FieldError == "field"

\* what a client may type into the identifier and password fields ("" and <<>>: left empty)
LoginIds == FormEmails \cup {<<"a">>, <<>>}
LoginPasswords == Passwords \cup {""}

\* the identifier field's own validation: forms.EmailField, or EmailOrCharField.validate
IdentifierValid(kind, id) ==
    /\ id # <<>>
    /\ kind = "EmailAuthenticationForm" => FirstAt(id, 1) # 0

\* the authenticate(...) call of clean()
Resolve(kind, email, password) ==
    IF kind = "EmailAuthenticationForm" \/ FirstAt(email, 1) # 0
    THEN EmailModelBackend_authenticate(email, password)
    ELSE ModelBackend_authenticate(email, password)

\* EmailAuthenticationForm.clean: if self.request: if not self.request.session.test_cookie_worked(): raise
EmailForm_cookie_fails(request, worked) == request /\ ~worked

\* EmailOrUsernameAuthenticationForm.clean: the request is used for set_expiry only
EmailOrUsernameForm_cookie_fails(request, worked) == FALSE

cookie_fails(kind, request, worked) ==
    IF kind = "EmailAuthenticationForm"
    THEN EmailForm_cookie_fails(request, worked)
    ELSE EmailOrUsernameForm_cookie_fails(request, worked)

\* EmailOrUsernameAuthenticationForm.clean: self.request.session.set_expiry(0)
sets_expiry(kind, request, persistent) ==
    kind = "EmailOrUsernameAuthenticationForm" /\ request /\ ~persistent

\* full_clean() of an authentication form: the fields, then clean(); self.user_cache
\* is assigned when authenticate returns and kept whatever clean() raises next
AuthFormClean(kind, request, worked, id, password, persistent) ==
    LET email == IF IdentifierValid(kind, id) THEN id ELSE <<>>
        fielderr == email = <<>> \/ password = ""
        tried == email # <<>> /\ password # ""
        res == IF tried THEN Resolve(kind, email, password)
               ELSE [raised |-> "", user |-> None]
        cache == IF tried /\ res.raised = "" THEN res.user ELSE None
    IN  IF tried /\ res.raised # ""
        THEN [state |-> "raised", error |-> res.raised, user_cache |-> cache, expire |-> FALSE]
        ELSE IF tried /\ cache = None
        THEN [state |-> "invalid", error |-> IncorrectCredentials, user_cache |-> cache, expire |-> FALSE]
        ELSE IF tried /\ ~Row(cache).is_active
        THEN [state |-> "invalid", error |-> InactiveAccount, user_cache |-> cache, expire |-> FALSE]
        ELSE IF cookie_fails(kind, request, worked)
        THEN [state |-> "invalid", error |-> NoCookies, user_cache |-> cache, expire |-> FALSE]
        ELSE [state |-> IF fielderr THEN "invalid" ELSE "valid",
              error |-> IF fielderr THEN FieldError ELSE "",
              user_cache |-> cache,
              expire |-> sets_expiry(kind, request, persistent)]

\* __init__(request, data): self.request = request; self.user_cache = None
NewAuthForm(kind, request, worked) ==
    /\ form' = [kind |-> kind, request |-> request, state |-> "new",
                error |-> "", user_cache |-> None]
    /\ session' = [test_cookie_worked |-> request /\ worked, expiry |-> "default"]
    /\ reg' = RegIdle
    /\ auth' = AuthIdle
    /\ UNCHANGED <<users, profiles, codes, outbox, signals, req, max_length, gen, trip>>

\* is_valid() on the bound form
CleanAuthForm(id, password, persistent) ==
    /\ form.state = "new"
    /\ LET out == AuthFormClean(form.kind, form.request, session.test_cookie_worked,
                                id, password, persistent)
       IN  /\ form' = [form EXCEPT !.state = out.state, !.error = out.error,
                                   !.user_cache = out.user_cache]
           /\ session' = IF out.expire THEN [session EXCEPT !.expiry = 0] ELSE session
    /\ UNCHANGED <<users, profiles, codes, outbox, signals, req, auth, reg, max_length, gen, trip>>

get_user(f) == f.user_cache

get_user_id(f) == IF f.user_cache # None THEN Row(f.user_cache).id ELSE None

----------------------------------------------------------------------------
(* One visitor's round trip: EmailRegistrationForm, activation, login *)

TripIdle == [pc |-> "start", email |-> <<>>, password |-> "", user |-> None,
             via |-> "", raised |-> "", valid |-> FALSE, resolved |-> None]

\* the visitor submits EmailRegistrationForm; when it is valid the backend creates
\* the inactive account from cleaned_data, and the visitor remembers what was typed
TripRegister(data) ==
    LET kind == "EmailRegistrationForm"
        errors == FormErrors(kind, data)
        id == NextId(users)
        email == cleaned_email(kind, data.email)
        name == generate_unique_username(email, users, max_length)
    IN  /\ trip.pc = "start"
        /\ errors = {} => Cardinality(users) < MaxAccounts
        /\ users' = IF errors = {}
                    THEN users \cup {Account(id, name, email, data.password1, FALSE)}
                    ELSE users
        /\ profiles' = IF errors = {} THEN profiles \cup {id} ELSE profiles
        /\ reg' = [kind |-> kind, data |-> data, errors |-> errors,
                   user |-> IF errors = {} THEN id ELSE None]
        /\ trip' = IF errors = {}
                   THEN [trip EXCEPT !.pc = "registered", !.email = data.email,
                                     !.password = data.password1, !.user = id]
                   ELSE trip
        /\ form' = FormIdle
        /\ auth' = AuthIdle
        /\ session' = SessionIdle
        /\ UNCHANGED <<codes, outbox, signals, req, max_length, gen>>

\* the visitor's account is activated
TripActivate ==
    /\ trip.pc = "registered"
    /\ trip.user \in profiles
    /\ users' = {IF u.id = trip.user THEN [u EXCEPT !.is_active = TRUE] ELSE u : u \in users}
    /\ profiles' = profiles \ {trip.user}
    /\ trip' = [trip EXCEPT !.pc = "active"]
    /\ reg' = RegIdle
    /\ form' = FormIdle
    /\ auth' = AuthIdle
    /\ session' = SessionIdle
    /\ UNCHANGED <<codes, outbox, signals, req, max_length, gen>>

\* EmailModelBackend.authenticate with the email and password typed at registration
TripAuthenticate ==
    LET out == EmailModelBackend_authenticate(trip.email, trip.password)
    IN  /\ trip.pc = "active"
        /\ auth' = [email |-> trip.email, password |-> trip.password, called |-> TRUE,
                    raised |-> out.raised, user |-> out.user]
        /\ trip' = [trip EXCEPT !.pc = "returned", !.via = "authenticate",
                                !.raised = out.raised, !.valid = out.user # None,
                                !.resolved = out.user]
        /\ reg' = RegIdle
        /\ form' = FormIdle
        /\ session' = SessionIdle
        /\ UNCHANGED <<users, profiles, codes, outbox, signals, req, max_length, gen>>

\* EmailAuthenticationForm(data=...).is_valid() with the email and password typed
\* at registration; no request is passed, so the cookie check is skipped
TripSubmit ==
    LET kind == "EmailAuthenticationForm"
        out == AuthFormClean(kind, FALSE, FALSE, trip.email, trip.password, FALSE)
    IN  /\ trip.pc = "active"
        /\ form' = [kind |-> kind, request |-> FALSE, state |-> out.state,
                    error |-> out.error, user_cache |-> out.user_cache]
        /\ trip' = [trip EXCEPT !.pc = "returned", !.via = "form",
                                !.raised = IF out.state = "raised" THEN out.error ELSE "",
                                !.valid = out.state = "valid",
                                !.resolved = out.user_cache]
        /\ session' = SessionIdle
        /\ reg' = RegIdle
        /\ auth' = AuthIdle
        /\ UNCHANGED <<users, profiles, codes, outbox, signals, req, max_length, gen>>

----------------------------------------------------------------------------
(* The registration workflow under concurrent requests *)

Init ==
    /\ users = {}
    /\ profiles = {}
    /\ codes = [c \in Codes |-> None]
    /\ outbox = {}
    /\ signals = {}
    /\ req = [r \in Requests |-> ReqIdle]
    /\ form = FormIdle
    /\ session = SessionIdle
    /\ auth = AuthIdle
    /\ reg = RegIdle
    /\ max_length = UsernameMaxLength
    /\ gen = GenIdle
    /\ trip = TripIdle

Next ==
    \E r \in Requests :
        \/ \E arg \in CodeArgs, email \in RegEmails : RegStart(r, arg, email)
        \/ RegLookup(r)
        \/ RegCreate(r)
        \/ RegSendEmail(r)
        \/ RegSendSignal(r)
        \/ RegUse(r)

Spec == Init /\ [][Next]_vars

\* the same requests served one at a time: a request starts only when no other is in flight
InFlight(r) == req[r].pc \notin {"idle", "done"}

NextSeq ==
    \E r \in Requests :
        /\ \A q \in Requests \ {r} : ~InFlight(q)
        /\ \/ \E arg \in CodeArgs, email \in RegEmails : RegStart(r, arg, email)
           \/ RegLookup(r)
           \/ RegCreate(r)
           \/ RegSendEmail(r)
           \/ RegSendSignal(r)
           \/ RegUse(r)

SpecSeq == Init /\ [][NextSeq]_vars

----------------------------------------------------------------------------
(* Registration through the forms, activation, and login *)

NextForms ==
    \/ \E kind \in RegistrationFormKinds : \E data \in FormData(kind) : RegisterVia(kind, data)
    \/ \E u \in users : Activate(u.id)
    \/ \E email \in FormEmails, password \in Passwords : Authenticate(email, password)
    \/ \E kind \in AuthFormKinds, request \in BOOLEAN, worked \in BOOLEAN :
           NewAuthForm(kind, request, worked)
    \/ \E id \in LoginIds, password \in LoginPasswords, persistent \in BOOLEAN :
           CleanAuthForm(id, password, persistent)

SpecForms == Init /\ [][NextForms]_vars

\* the forms whose clean_email enforces a unique email
UniqueEmailKinds ==
    {"RegistrationFormUniqueEmail", "EmailRegistrationForm", "EmailRegistrationReenterForm"}

\* registrations through the unique-email forms only
NextUniqueEmail ==
    \/ \E kind \in UniqueEmailKinds : \E data \in FormData(kind) : RegisterVia(kind, data)
    \/ \E u \in users : Activate(u.id)

SpecUniqueEmail == Init /\ [][NextUniqueEmail]_vars

\* the visitor's round trip among other visitors' registrations and activations
NextRoundTrip ==
    \/ \E kind \in RegistrationFormKinds : \E data \in FormData(kind) : RegisterVia(kind, data)
    \/ \E u \in users : u.id # trip.user /\ Activate(u.id)
    \/ \E data \in FormData("EmailRegistrationForm") : TripRegister(data)
    \/ TripActivate
    \/ TripAuthenticate
    \/ TripSubmit

SpecRoundTrip == Init /\ [][NextRoundTrip]_vars

----------------------------------------------------------------------------
(* generate_unique_username over a fixed store *)

NameChars == {"a", "b"} \cup Range(DigitChars)

\* every username of 1..m characters
AllNames(m) == UNION {[1..k -> NameChars] : k \in 1..m}

SmallNames ==
    {<<"a">>, <<"b">>, <<"2">>, <<"a", "b">>, <<"a", "2">>, <<"a", "3">>}

\* the one name left free in an otherwise full store
HoleNames == {<<"2">>, <<"a", "2">>}

\* the stores explored: few accounts, or every name that fits taken but at most one
GenStoreNames(m) ==
    {S \in SUBSET {n \in SmallNames : Len(n) <= m} : Cardinality(S) <= MaxTaken}
    \cup {AllNames(m)}
    \cup {AllNames(m) \ {n} : n \in {n \in HoleNames : Len(n) <= m}}

CharCode(ch) ==
    CASE ch = "a" -> 11
      [] ch = "b" -> 12
      [] OTHER -> CHOOSE d \in 1..10 : DigitChars[d] = ch

\* a pk for the account holding name, distinct for distinct names
RECURSIVE NameId(_)
NameId(name) ==
    IF name = <<>> THEN 0 ELSE 13 * NameId(SubSeq(name, 1, Len(name) - 1)) + CharCode(name[Len(name)])

StoreOf(names) ==
    {Account(NameId(n), n, n \o <<"@", "x">>, "p", TRUE) : n \in names}

GenTexts ==
    {<<"a", "b", "@", "x">>, <<"A", ".", "b", "@", "x">>, <<"b", "@", "x">>,
     <<"a", " ", "-", "b">>, <<"@", "x">>}

InitGen ==
    /\ max_length \in 1..MaxLen
    /\ users \in {StoreOf(S) : S \in GenStoreNames(max_length)}
    /\ profiles = {}
    /\ codes = [c \in Codes |-> None]
    /\ outbox = {}
    /\ signals = {}
    /\ req = [r \in Requests |-> ReqIdle]
    /\ form = FormIdle
    /\ session = SessionIdle
    /\ auth = AuthIdle
    /\ reg = RegIdle
    /\ gen = GenIdle
    /\ trip = TripIdle

NextGen ==
    \/ \E txt \in GenTexts : GenCall(txt)
    \/ GenTry

\* a call that has entered the loop keeps running
SpecGen == InitGen /\ [][NextGen]_vars /\ WF_vars(GenTry)

----------------------------------------------------------------------------
(* Claims about EmailCodeBackend.register *)

\* C1: a register call whose non-empty signup code matches no RegistrationCode
\* creates no account and no activation record, leaves the store unchanged and
\* returns False (it does not end in an exception).
C1_UnknownCodeReturnsFalse ==
    [][\A r \in Requests :
          (/\ req[r].pc = "lookup"
           /\ req[r].arg # ""
           /\ req[r].arg \notin DOMAIN codes
           /\ req'[r] # req[r])
          => /\ users' = users
             /\ profiles' = profiles
             /\ codes' = codes
             /\ req'[r].pc = "done"
             /\ req'[r].new_user = None
             /\ req'[r].result = "False"]_vars

\* the requests that created an account on the strength of code c
CreatedWith(c) == {r \in Requests : req[r].signup_code = c /\ req[r].new_user # None}

\* C2: over any sequence of register calls every signup code is consumed by at
\* most one account: at most one call creates an account with a given code, that
\* account is inactive, and once the call has returned the code is recorded
\* against that account; a later call with the used code creates nothing.
C2_CodeConsumedOnce ==
    \A c \in Codes :
        /\ Cardinality(CreatedWith(c)) <= 1
        /\ \A r \in CreatedWith(c) :
              /\ \E u \in users : u.id = req[r].new_user /\ ~u.is_active
              /\ req[r].pc = "done" => codes[c] = req[r].new_user

\* C3: however two concurrent register requests presenting the same unused code
\* interleave, no state has two accounts created on the strength of that code.
C3_NoDoubleConsumption ==
    \A r1 \in Requests, r2 \in Requests :
        (r1 # r2 /\ req[r1].signup_code # "" /\ req[r1].signup_code = req[r2].signup_code)
        => ~(req[r1].new_user # None /\ req[r2].new_user # None)

\* C10: in a register call with a valid code the activation email is dispatched
\* and user_registered is emitted only after the code has been marked consumed:
\* no state has the email sent or the signal emitted for a new account while the
\* code it registered with is still unconsumed.
C10_ConsumedBeforeEmailAndSignal ==
    \A r \in Requests :
        (req[r].new_user # None /\ req[r].new_user \in outbox \cup signals)
        => codes[req[r].signup_code] # None

----------------------------------------------------------------------------
(* Claims about the credential resolver and the forms *)

\* C4: in every store the registration forms admit, authenticate(email, password)
\* never raises; it returns the account whose email equals the identifier when
\* the password verifies, and nothing when no account has that email or the
\* password does not verify.
C4_AuthenticateNeverRaises ==
    auth.called =>
        /\ auth.raised = ""
        /\ auth.user # None =>
              /\ Row(auth.user).email = auth.email
              /\ check_password(Row(auth.user), auth.password)
        /\ auth.user = None =>
              ~\E u \in users : u.email = auth.email /\ check_password(u, auth.password)

\* C5: get_user() and get_user_id() of an authentication form return an identity
\* only if the form validated; after a validation failure, or before clean() has
\* run, both return nothing.
C5_IdentityOnlyWhenValid ==
    (form.kind \in AuthFormKinds /\ form.state # "valid")
    => (get_user(form) = None /\ get_user_id(form) = None)

\* C6: an authentication form given a request validates only if the session's
\* test cookie has round-tripped.
C6_TestCookieRequired ==
    (form.kind \in AuthFormKinds /\ form.request /\ form.state = "valid")
    => session.test_cookie_worked

\* C8: a unique-email registration form given an email that equals, ignoring
\* case, the email of an account already in the store fails with the
\* duplicate-email message; so registrations through these forms never yield two
\* accounts whose emails are equal ignoring case.
C8_DuplicateEmailRejected ==
    /\ (/\ reg.kind \in UniqueEmailKinds
        /\ \E u \in users : u.id # reg.user /\ IExact(u.email, reg.data.email))
       => DuplicateEmail \in reg.errors
    /\ \A u \in users, v \in users : (u # v) => ~IExact(u.email, v.email)

----------------------------------------------------------------------------
(* Claims about generate_unique_username *)

\* the candidate sequence as specified: the slug cut to the room the suffix leaves
SpecCandidate(base, k, maxlen) ==
    SubSeq(base, 1, Min(Len(base), Max(0, maxlen - Len(Pfx(k))))) \o Pfx(k)

RECURSIVE FirstFree(_, _, _)
FirstFree(base, k, maxlen) ==
    IF ByUsername(SpecCandidate(base, k, maxlen)) = {}
    THEN SpecCandidate(base, k, maxlen)
    ELSE FirstFree(base, k + 1, maxlen)

RECURSIVE Pow10(_)
Pow10(n) == IF n = 0 THEN 1 ELSE 10 * Pow10(n - 1)

\* some candidate whose suffix is no longer than max_length is free
\* (suffix str(k+1) has at most max_length digits exactly when k+1 < 10^max_length)
FittingCandidateFree ==
    \E k \in 0..(Pow10(max_length) - 2) :
        ByUsername(SpecCandidate(slugify(LocalPart(gen.txt)), k, max_length)) = {}

Exhausted == \A n \in AllNames(max_length) : ByUsername(n) # {}

\* C9: on every text and every finite store the search loop terminates and
\* returns a username, also when every candidate that fits is taken.
C9_SearchTerminates == (gen.pc = "loop") ~> (gen.pc = "done")

\* a search over an exhausted store has returned
C9_ReturnedFromExhaustedStore == gen.pc = "done" /\ gen.i > 0 /\ Exhausted

----------------------------------------------------------------------------
(* Claim about the round trip from registration to login *)

\* C11: once the account created from an accepted EmailRegistrationForm has been
\* activated, logging in with the email exactly as it was typed at registration
\* (whatever its letter case) and the same password, through
\* EmailModelBackend.authenticate or EmailAuthenticationForm, raises nothing and
\* resolves to that account.
C11_RoundTripResolvesToAccount ==
    trip.pc = "returned" =>
        /\ trip.raised = ""
        /\ trip.resolved = trip.user
        /\ trip.valid

====
